---- MODULE Spec2Model ----
(***************************************************************************)
(* MenuDrivenFigure (src/src/menu_driven_figure/app.py): a Dash app whose   *)
(* layout is compiled from a menu schema and whose callbacks keep the       *)
(* serialized settings, the menu collapses, the parameter collapses and     *)
(* the figures in step with the user's events.                              *)
(*                                                                          *)
(* One action per user event.  An event runs the callback it triggers and   *)
(* every callback that depends on that callback's output, as the            *)
(* Input/Output declarations of decorate_callbacks wire them.               *)
(***************************************************************************)
EXTENDS Integers, Sequences, FiniteSets, TLC

\* Bounds of the model.
MaxVal == 1        \* control values are the integers 0..MaxVal
MaxClicks == 2     \* an open button is clicked at most this often
MaxLen == 4        \* split_param_columns is called on lists of up to MaxLen items
MaxCols == 3       \* and with ncols in 1..MaxCols

(***************************************************************************)
(* Values                                                                   *)
(***************************************************************************)
\* The value of a control: a JSON scalar, or the empty list.
Val(i) == [tag |-> "int", n |-> i]
EmptyList == [tag |-> "list", n |-> 0]
Values == {Val(i) : i \in 0..MaxVal}

\* n_clicks of a button: None until the first click, then the count.
NoClicks == [is_none |-> TRUE, n |-> 0]
Clicked(k) == [is_none |-> FALSE, n |-> k]

(***************************************************************************)
(* The schema: menus, header_menu, figures, function                        *)
(***************************************************************************)
\* show_if / hide_if of a param_item: {} when the key is absent, else one
\* dict with its target and value.
NoRule == {}
Rule(t, V) == {[target |-> t, value |-> V]}

\* A param_item.  value: {} when the key is absent.
Item(e, sh, kp, si, hi, dv) ==
    [elem_id |-> e, show |-> sh, keep_with_previous |-> kp,
     show_if |-> si, hide_if |-> hi, value |-> dv]

\* A user-supplied drawing function: it reads the keys `reads` of the
\* selections and divides by the value of `divisor` (when it has one).
\* pops: the key it takes out of the selections with selections.pop(key),
\* "" when it leaves the dict it is handed as it is.
Fn(nm, rd, dv) == [name |-> nm, reads |-> rd, divisor |-> dv, pops |-> ""]
FnPop(nm, rd, dv, k) == [name |-> nm, reads |-> rd, divisor |-> dv, pops |-> k]

\* The example of src/test.py: one menu, two parameters, a single function.
IrisApp ==
    [name |-> "iris",
     menus |-> << [label |-> "Customize Display",
                   params |-> << Item("display-species", TRUE, FALSE, NoRule, NoRule, {Val(1)}),
                                 Item("plot-title", TRUE, FALSE, NoRule, NoRule, {Val(0)}) >>] >>,
     header_is_none |-> TRUE,
     header_menu_items |-> << >>,
     figures |-> << "rendered-figure" >>,
     function |-> << [elem_id |-> "rendered-figure",
                      fn |-> Fn("plot_iris_data", {"display-species", "plot-title"}, "")] >>,
     param_menu_ncols |-> 2,
     initial_settings |-> << >>]

\* Two menus with the same label, three figures of which two have their own
\* function, a header menu.
TwoFigApp ==
    [name |-> "twofig",
     menus |-> << [label |-> "Menu",
                   params |-> << Item("x", TRUE, FALSE, NoRule, NoRule, {Val(1)}) >>],
                  [label |-> "Menu",
                   params |-> << Item("s", FALSE, FALSE, NoRule, NoRule, {Val(0)}) >>] >>,
     header_is_none |-> FALSE,
     header_menu_items |-> << Item("d", TRUE, FALSE, NoRule, NoRule, {Val(1)}) >>,
     figures |-> << "figA", "figB", "figC" >>,
     function |-> << [elem_id |-> "figA", fn |-> Fn("ratio", {"x", "d"}, "d")],
                     [elem_id |-> "figB", fn |-> Fn("scatter", {"x"}, "")] >>,
     param_menu_ncols |-> 2,
     initial_settings |-> << >>]

\* Visibility rules in a parameter menu, an item that is not shown, an item
\* kept with the previous one, an item without default, initial settings.
RulesApp ==
    [name |-> "rules",
     menus |-> << [label |-> "Options",
                   params |-> << Item("t", TRUE, FALSE, NoRule, NoRule, {Val(0)}),
                                 Item("p", TRUE, FALSE, Rule("t", {Val(1)}), NoRule, {}),
                                 Item("s", FALSE, FALSE, Rule("t", {Val(1)}), NoRule, {Val(0)}),
                                 Item("q", TRUE, TRUE, NoRule, Rule("t", {Val(1)}), {Val(1)}) >>] >>,
     header_is_none |-> TRUE,
     header_menu_items |-> << >>,
     figures |-> << "rendered-figure" >>,
     function |-> << [elem_id |-> "rendered-figure", fn |-> Fn("ratio", {"t", "q"}, "q")] >>,
     param_menu_ncols |-> 2,
     initial_settings |-> [k \in {"q"} |-> Val(0)]]

\* A visibility rule on an item of the header menu, whose target is in the
\* header menu too; a parameter menu without items.
HeaderApp ==
    [name |-> "header",
     menus |-> << [label |-> "Empty", params |-> << >>] >>,
     header_is_none |-> FALSE,
     header_menu_items |-> << Item("t", TRUE, FALSE, NoRule, NoRule, {Val(0)}),
                              Item("h", TRUE, FALSE, Rule("t", {Val(1)}), NoRule, {Val(1)}) >>,
     figures |-> << "rendered-figure" >>,
     function |-> << [elem_id |-> "rendered-figure", fn |-> Fn("scatter", {"t", "h"}, "")] >>,
     param_menu_ncols |-> 1,
     initial_settings |-> << >>]

\* A drawing function that takes a key out of the dict it is handed
\* (title = selections.pop("n")), a control in the header menu.
CacheApp ==
    [name |-> "cache",
     menus |-> << [label |-> "Empty", params |-> << >>] >>,
     header_is_none |-> FALSE,
     header_menu_items |-> << Item("n", TRUE, FALSE, NoRule, NoRule, {Val(1)}) >>,
     figures |-> << "rendered-figure" >>,
     function |-> << [elem_id |-> "rendered-figure",
                      fn |-> FnPop("plot_titled", {"n"}, "", "n")] >>,
     param_menu_ncols |-> 1,
     initial_settings |-> << >>]

\* An app of one menu with the items `params`, and of the header menu
\* `header` when has_header, with a single function that reads the key "a".
SchemaApp(nm, params, has_header, header) ==
    [name |-> nm,
     menus |-> << [label |-> "Menu", params |-> params] >>,
     header_is_none |-> ~has_header,
     header_menu_items |-> header,
     figures |-> << "rendered-figure" >>,
     function |-> << [elem_id |-> "rendered-figure", fn |-> Fn("scatter", {"a"}, "")] >>,
     param_menu_ncols |-> 1,
     initial_settings |-> << >>]

\* A shown item of a parameter menu with both show_if and hide_if.
BothApp ==
    SchemaApp("both",
              << Item("a", TRUE, FALSE, NoRule, NoRule, {Val(1)}),
                 Item("b", TRUE, FALSE, Rule("a", {Val(1)}), Rule("a", {Val(0)}), {Val(0)}) >>,
              FALSE, << >>)

\* The same item with show=false.
BothHiddenApp ==
    SchemaApp("bothhidden",
              << Item("a", TRUE, FALSE, NoRule, NoRule, {Val(1)}),
                 Item("b", FALSE, FALSE, Rule("a", {Val(1)}), Rule("a", {Val(0)}), {Val(0)}) >>,
              FALSE, << >>)

\* The same item in the header menu.
BothHeaderApp ==
    SchemaApp("bothheader",
              << Item("a", TRUE, FALSE, NoRule, NoRule, {Val(1)}) >>,
              TRUE,
              << Item("b", TRUE, FALSE, Rule("a", {Val(1)}), Rule("a", {Val(0)}), {Val(0)}) >>)

\* A show_if whose target is the elem_id of no item.
GhostApp ==
    SchemaApp("ghost",
              << Item("a", TRUE, FALSE, NoRule, NoRule, {Val(1)}),
                 Item("c", TRUE, FALSE, Rule("ghost", {Val(1)}), NoRule, {Val(0)}) >>,
              FALSE, << >>)

\* Two items with the same elem_id, of which the second is not shown.
DupApp ==
    SchemaApp("dup",
              << Item("a", TRUE, FALSE, NoRule, NoRule, {Val(1)}),
                 Item("a", FALSE, FALSE, NoRule, NoRule, {Val(0)}) >>,
              FALSE, << >>)

\* The apps of the model, by name.
AppNames == {"iris", "twofig", "rules", "header", "cache",
             "both", "bothhidden", "bothheader", "ghost", "dup"}
Config(name) ==
    CASE name = "iris" -> IrisApp
      [] name = "twofig" -> TwoFigApp
      [] name = "rules" -> RulesApp
      [] name = "header" -> HeaderApp
      [] name = "cache" -> CacheApp
      [] name = "both" -> BothApp
      [] name = "bothhidden" -> BothHiddenApp
      [] name = "bothheader" -> BothHeaderApp
      [] name = "ghost" -> GhostApp
      [] name = "dup" -> DupApp

(***************************************************************************)
(* Layout                                                                   *)
(***************************************************************************)
Min(S) == CHOOSE x \in S : \A y \in S : x <= y

\* split_param_columns: the positions (0-based split_ix) where the list may
\* be split: not the first item, not an item kept with the previous one,
\* and at least 1/ncols of the list before it.
\* SplitCandidates with float(split_ix) > len / float(ncols).
SplitCandidates_strict(param_menu_list, ncols) ==
    {split_ix \in 1..(Len(param_menu_list) - 1) :
        /\ ~param_menu_list[split_ix + 1].keep_with_previous
        /\ split_ix * ncols > Len(param_menu_list)}

\* SplitCandidates without the test of keep_with_previous.
SplitCandidates_anywhere(param_menu_list, ncols) ==
    {split_ix \in 1..(Len(param_menu_list) - 1) :
        split_ix * ncols >= Len(param_menu_list)}

SplitCandidates(param_menu_list, ncols) ==
    {split_ix \in 1..(Len(param_menu_list) - 1) :
        /\ ~param_menu_list[split_ix + 1].keep_with_previous
        /\ split_ix * ncols >= Len(param_menu_list)}

\* split_param_columns that splits the rest of the list with ncols again,
\* not with ncols - 1.
RECURSIVE split_param_columns_same_ncols(_, _)
split_param_columns_same_ncols(param_menu_list, ncols) ==
    IF Len(param_menu_list) = 0 THEN << >>
    ELSE IF Len(param_menu_list) = 1 THEN << param_menu_list >>
    ELSE IF ncols = 1 THEN << param_menu_list >>
    ELSE IF SplitCandidates(param_menu_list, ncols) # {}
         THEN LET next_list_ix == Min(SplitCandidates(param_menu_list, ncols))
              IN  << SubSeq(param_menu_list, 1, next_list_ix) >>
                  \o split_param_columns_same_ncols(
                         SubSeq(param_menu_list, next_list_ix + 1, Len(param_menu_list)),
                         ncols)
         ELSE << param_menu_list >>

\* split_param_columns whose first column is param_menu_list[:next_list_ix + 1].
RECURSIVE split_param_columns_overlap(_, _)
split_param_columns_overlap(param_menu_list, ncols) ==
    IF Len(param_menu_list) = 0 THEN << >>
    ELSE IF Len(param_menu_list) = 1 THEN << param_menu_list >>
    ELSE IF ncols = 1 THEN << param_menu_list >>
    ELSE IF SplitCandidates(param_menu_list, ncols) # {}
         THEN LET next_list_ix == Min(SplitCandidates(param_menu_list, ncols))
              IN  << SubSeq(param_menu_list, 1, next_list_ix + 1) >>
                  \o split_param_columns_overlap(
                         SubSeq(param_menu_list, next_list_ix + 1, Len(param_menu_list)),
                         ncols - 1)
         ELSE << param_menu_list >>

RECURSIVE split_param_columns(_, _)
split_param_columns(param_menu_list, ncols) ==
    IF Len(param_menu_list) = 0 THEN << >>
    ELSE IF Len(param_menu_list) = 1 THEN << param_menu_list >>
    ELSE IF ncols = 1 THEN << param_menu_list >>
    ELSE IF SplitCandidates(param_menu_list, ncols) # {}
         THEN LET next_list_ix == Min(SplitCandidates(param_menu_list, ncols))
              IN  << SubSeq(param_menu_list, 1, next_list_ix) >>
                  \o split_param_columns(
                         SubSeq(param_menu_list, next_list_ix + 1, Len(param_menu_list)),
                         ncols - 1)
         ELSE << param_menu_list >>

\* ShownItems without the filter on "show".
ShownItems_unfiltered(param_menu_column) == param_menu_column

\* The items of a column that are rendered: `if param_item.get("show", True)`.
ShownItems(param_menu_column) ==
    SelectSeq(param_menu_column, LAMBDA param_item : param_item.show)

\* The columns of a card: one dbc.Col per column of the split, holding the
\* rendered items of that column.
CardColumns(params, ncols) ==
    LET cols == split_param_columns(params, ncols)
    IN  [c \in 1..Len(cols) |-> ShownItems(cols[c])]

RECURSIVE Concat(_)
Concat(seqs) ==
    IF Len(seqs) = 0 THEN << >> ELSE Head(seqs) \o Concat(Tail(seqs))

\* parameter_menus(): the rendered items of every menu, in layout order.
RECURSIVE parameter_menus(_, _)
parameter_menus(c, menu_ix) ==
    IF menu_ix > Len(c.menus) THEN << >>
    ELSE Concat(CardColumns(c.menus[menu_ix].params, c.param_menu_ncols))
         \o parameter_menus(c, menu_ix + 1)

\* header_menu(): the rendered items of the header menu.
header_menu(c) ==
    Concat(CardColumns(IF c.header_is_none THEN << >> ELSE c.header_menu_items,
                       c.param_menu_ncols))

\* layout(): the rendered param_items in the order of the widget tree.
layout(c) == parameter_menus(c, 1) \o header_menu(c)

\* The ids {"input_elem": elem_id} of the layout, in order.
InputElems(c) == [i \in 1..Len(layout(c)) |-> layout(c)[i].elem_id]
LiveElemIds(c) == {InputElems(c)[i] : i \in 1..Len(InputElems(c))}

\* default_value that takes the value of the param_item before the
\* initial settings.
default_value_item_first(c, param_item) ==
    IF param_item.value # {}
    THEN CHOOSE v \in param_item.value : TRUE
    ELSE IF param_item.elem_id \in DOMAIN c.initial_settings
         THEN c.initial_settings[param_item.elem_id]
         ELSE EmptyList

\* render_param_elem: the default value of the control.
default_value(c, param_item) ==
    IF param_item.elem_id \in DOMAIN c.initial_settings
    THEN c.initial_settings[param_item.elem_id]
    ELSE IF param_item.value # {}
         THEN CHOOSE v \in param_item.value : TRUE
         ELSE EmptyList

\* The value a rendered control starts with (the param_item of an elem_id).
ItemOf(c, e) == layout(c)[Min({i \in 1..Len(layout(c)) : layout(c)[i].elem_id = e})]

\* MenuId made of the label of the menu instead of its number.
MenuId_by_label(param_menu, menu_ix) == "menu-" \o param_menu.label

\* navbar / parameter_menus: the id of menu number menu_ix (1-based here,
\* 0-based in the id).
MenuId(param_menu, menu_ix) == "menu-" \o ToString(menu_ix - 1)
MenuIxs(c) == 1..Len(c.menus)
MenuIdOf(c, menu_ix) == MenuId(c.menus[menu_ix], menu_ix)

\* The menu whose card holds the control of an elem_id: the number of the
\* first menu with a shown item of that elem_id, 0 for the header menu.
CardOf(c, e) ==
    LET of_menu == {menu_ix \in MenuIxs(c) :
                       \E i \in 1..Len(c.menus[menu_ix].params) :
                           /\ c.menus[menu_ix].params[i].elem_id = e
                           /\ c.menus[menu_ix].params[i].show}
    IN  IF of_menu = {} THEN 0 ELSE Min(of_menu)

\* self.function: the figures that have a callback.
FunctionKeys(c) == {c.function[i].elem_id : i \in 1..Len(c.function)}
Figures(c) == {c.figures[i] : i \in 1..Len(c.figures)}

(***************************************************************************)
(* Serialized settings                                                      *)
(***************************************************************************)
\* "current-settings".children: None in the layout (hidden_div), afterwards
\* the JSON text that update_url returns.  The text of a JSON object is the
\* sequence of its key/value members.
NoneDoc == [tag |-> "None", text |-> << >>]
StrDoc(members) == [tag |-> "str", text |-> members]

\* A Python dict, as the sequence of its entries in insertion order.
DictSet(d, k, v) ==
    IF \E i \in 1..Len(d) : d[i].key = k
    THEN [i \in 1..Len(d) |-> IF d[i].key = k THEN [key |-> k, value |-> v] ELSE d[i]]
    ELSE Append(d, [key |-> k, value |-> v])

\* update_url: {elem["id"]["input_elem"]: elem["value"] for elem in inputs_list[0]}
RECURSIVE selected_params_of(_, _)
selected_params_of(inputs_list, n) ==
    IF n = 0 THEN << >>
    ELSE DictSet(selected_params_of(inputs_list, n - 1),
                 inputs_list[n].id, inputs_list[n].value)

json_dumps(d) == StrDoc(d)

\* update_url that leaves out the last element of inputs_list[0].
update_url_partial(inputs_list) ==
    json_dumps(selected_params_of(inputs_list, Len(inputs_list) - 1))

update_url(inputs_list) ==
    json_dumps(selected_params_of(inputs_list, Len(inputs_list)))

\* json.loads: a TypeError for None, else the mapping of the members (the
\* last member of a key wins).
json_loads(doc) ==
    IF doc.tag # "str"
    THEN [raised |-> TRUE, e |-> "TypeError", value |-> << >>]
    ELSE LET keys == {doc.text[i].key : i \in 1..Len(doc.text)}
             last(k) == CHOOSE i \in 1..Len(doc.text) :
                            /\ doc.text[i].key = k
                            /\ \A j \in 1..Len(doc.text) : doc.text[j].key = k => j <= i
         IN  [raised |-> FALSE, e |-> "",
              value |-> [k \in keys |-> doc.text[last(k)].value]]

\* parse_params is wrapped in lru_cache(maxsize=128): a string that was
\* parsed before gets the dict object of the earlier call, as earlier
\* callers left it.  `cache` holds, by string, the cached dicts that no
\* longer equal the parse of their string; a cached dict that still does
\* is handed out like a new parse.  The strings of an app of the model are
\* fewer than maxsize, so no entry is evicted.
parse_params(cache, selected_params) ==
    IF selected_params \in DOMAIN cache
    THEN [raised |-> FALSE, e |-> "", value |-> cache[selected_params]]
    ELSE json_loads(selected_params)

\* The cache once the dict of selected_params is left as `dict` by the
\* caller of parse_params.
CacheStore(cache, selected_params, dict) ==
    IF dict = json_loads(selected_params).value
    THEN [d \in DOMAIN cache \ {selected_params} |-> cache[d]]
    ELSE [d \in DOMAIN cache \cup {selected_params} |->
             IF d = selected_params THEN dict ELSE cache[d]]

(***************************************************************************)
(* Figures                                                                  *)
(***************************************************************************)
\* The figure property of a dcc.Graph: None in the layout, a figure made by
\* a drawing function, or the placeholder of empty_plot().
NoFigure == [tag |-> "None", fn |-> "", selections |-> << >>]
empty_plot == [tag |-> "empty", fn |-> "", selections |-> << >>]
Figure(fn_name, selections) == [tag |-> "figure", fn |-> fn_name, selections |-> selections]

\* The children of a toast: None, or the message of a failed render.
NoneMsg == [tag |-> "None", prefix |-> "", detail |-> ""]
UnableToRender(e) == [tag |-> "str", prefix |-> "Unable to render -- ", detail |-> e]

\* A call of a user-supplied drawing function (such as plot_iris_data):
\* it raises when a key it reads is missing or when it divides by zero or
\* by a list, and else returns a figure of its own made from the selections.
\* after: the dict it was handed as the call leaves it (the key of a pop
\* is taken out first, and is among the keys the function reads).
Call(fn, selections) ==
    LET popped == [k \in DOMAIN selections \ {fn.pops} |-> selections[k]]
    IN  IF \E k \in fn.reads : k \notin DOMAIN selections
        THEN [raised |-> TRUE, e |-> "KeyError", fig |-> NoFigure, after |-> selections]
        ELSE IF fn.divisor # "" /\ selections[fn.divisor] = Val(0)
        THEN [raised |-> TRUE, e |-> "division by zero", fig |-> NoFigure,
              after |-> popped]
        ELSE IF fn.divisor # "" /\ selections[fn.divisor].tag = "list"
        THEN [raised |-> TRUE, e |-> "unsupported operand type(s)", fig |-> NoFigure,
              after |-> popped]
        ELSE [raised |-> FALSE, e |-> "", fig |-> Figure(fn.name, selections),
              after |-> popped]

\* The function registered for a figure in self.function.
FunctionOf(c, elem_id) ==
    c.function[CHOOSE i \in 1..Len(c.function) : c.function[i].elem_id = elem_id].fn

\* The drawing_function that figure_callback calls: figure_callback is a
\* closure over the loop variable of `for elem_id, drawing_function in
\* self.function.items()`, and it runs after the loop has ended, when the
\* variable holds the last function of the dict, for every figure.
drawing_function(c, elem_id) == c.function[Len(c.function)].fn

(***************************************************************************)
(* Callbacks                                                                *)
(***************************************************************************)
\* ctx.triggered[0]['prop_id']: the id and the property of the input that
\* fired, "." (no id, no property) when none did.
NoTrigger == [menu |-> "", elem |-> "", prop |-> ""]
ButtonTrigger(menu, elem) == [menu |-> menu, elem |-> elem, prop |-> "n_clicks"]
SettingsTrigger == [menu |-> "", elem |-> "current-settings", prop |-> "children"]

\* open_close_parameter_menus without the test for "open-button": the menu
\* of any button that was clicked is the open menu.
open_close_parameter_menus_any_button(c, trigger) ==
    LET open_menu == IF trigger = NoTrigger THEN {} ELSE {trigger.menu}
    IN  [menu_ix \in MenuIxs(c) |-> MenuIdOf(c, menu_ix) \in open_menu]

\* open_close_parameter_menus: is_open of every menu collapse.
open_close_parameter_menus(c, trigger) ==
    LET open_menu == IF trigger = NoTrigger THEN {}
                     ELSE IF trigger.elem = "open-button" THEN {trigger.menu}
                     ELSE {}
    IN  [menu_ix \in MenuIxs(c) |-> MenuIdOf(c, menu_ix) \in open_menu]

\* Redraws without the PreventUpdate branch.
Redraws_always(open_clicks, trigger) == TRUE

\* Redraws without the branch for open buttons that were never pressed.
Redraws_buttons_only(open_clicks, trigger) ==
    trigger.elem \in {"close-button", "redraw-button"}

\* Whether figure_callback goes on to draw, or raises PreventUpdate.
Redraws(open_clicks, trigger) ==
    IF \A m \in DOMAIN open_clicks : open_clicks[m].is_none
    THEN TRUE
    ELSE trigger.elem \in {"close-button", "redraw-button"}

\* TryRender without the except clause: the exception leaves the callback.
TryRender_no_except(fn, selections) ==
    LET r == Call(fn, selections)
    IN  IF r.raised
        THEN [kind |-> "exception", fig |-> NoFigure, is_open |-> FALSE,
              children |-> NoneMsg, fn |-> fn.name,
              selections |-> selections, raised |-> TRUE]
        ELSE [kind |-> "return", fig |-> r.fig, is_open |-> FALSE,
              children |-> NoneMsg, fn |-> fn.name,
              selections |-> selections, raised |-> FALSE]

\* TryRender that leaves the toast as the except clause sets it: open.
TryRender_toast_open(fn, selections) ==
    LET r == Call(fn, selections)
    IN  IF r.raised
        THEN [kind |-> "return", fig |-> empty_plot, is_open |-> TRUE,
              children |-> UnableToRender(r.e), fn |-> fn.name,
              selections |-> selections, raised |-> TRUE]
        ELSE [kind |-> "return", fig |-> r.fig, is_open |-> TRUE,
              children |-> NoneMsg, fn |-> fn.name,
              selections |-> selections, raised |-> FALSE]

\* The outcome of the try block of figure_callback.
TryRender(fn, selections) ==
    LET r == Call(fn, selections)
    IN  IF r.raised
        THEN [kind |-> "return", fig |-> empty_plot, is_open |-> TRUE,
              children |-> UnableToRender(r.e), fn |-> fn.name,
              selections |-> selections, raised |-> TRUE]
        ELSE [kind |-> "return", fig |-> r.fig, is_open |-> FALSE,
              children |-> NoneMsg, fn |-> fn.name,
              selections |-> selections, raised |-> FALSE]

\* figure_callback of the figure elem_id.  kind: "PreventUpdate" (nothing is
\* updated), "exception" (an exception leaves the callback, nothing is
\* updated) or "return" (the three outputs are updated).  selections: the
\* dict the drawing function is handed; cache: the cache of parse_params
\* after the callback.
figure_callback(c, elem_id, open_clicks, trigger, selected_params, cache) ==
    LET quiet == [fig |-> NoFigure, is_open |-> FALSE, children |-> NoneMsg,
                  fn |-> "", selections |-> << >>, raised |-> FALSE,
                  cache |-> cache]
        parsed == parse_params(cache, selected_params)
        fn == drawing_function(c, elem_id)
    IN  IF ~Redraws(open_clicks, trigger)
        THEN [kind |-> "PreventUpdate"] @@ quiet
        ELSE IF parsed.raised
        THEN [kind |-> "exception"] @@ quiet
        ELSE [cache |-> CacheStore(cache, selected_params,
                                   Call(fn, parsed.value).after)]
             @@ TryRender(fn, parsed.value)

\* The param_items of self.menus, menu after menu.
RECURSIVE ItemsOfMenus(_, _)
ItemsOfMenus(c, menu_ix) ==
    IF menu_ix > Len(c.menus) THEN << >>
    ELSE c.menus[menu_ix].params \o ItemsOfMenus(c, menu_ix + 1)

\* decorate_callbacks, and __init__ before it: the message of the assertion
\* that fails, "" when the app is constructed.  show_if and hide_if are
\* checked for the items of self.menus that are shown.
ConstructionError(c) ==
    LET items == ItemsOfMenus(c, 1)
    IN  IF \E i \in 1..Len(c.function) : c.function[i].elem_id \notin Figures(c)
        THEN "All keys in function dict must match figures"
        ELSE IF \E i \in 1..Len(items) :
                    /\ items[i].show
                    /\ items[i].show_if # {}
                    /\ items[i].hide_if # {}
        THEN "Cannot combine show_if and hide_if"
        ELSE ""

\* The data of dcc.Download: None in the layout and when download_settings
\* is not called.
NoDownload == [tag |-> "None", content |-> NoneDoc, filename |-> ""]

\* download_settings that hands over the children "current-settings" has
\* in the layout.
download_settings_of_layout(n_clicks, selected_params) ==
    [tag |-> "dict", content |-> NoneDoc, filename |-> "gig-map.settings.json"]

\* download_settings: dict(content=selected_params, filename=...).
download_settings(n_clicks, selected_params) ==
    [tag |-> "dict", content |-> selected_params, filename |-> "gig-map.settings.json"]

\* decorate_callbacks: the show_if / hide_if callbacks that are registered,
\* for the items of self.menus that are shown.

VisibilityCallbacks(c) ==
    LET items == ItemsOfMenus(c, 1)
        of(param_item) ==
            IF param_item.show_if # {}
            THEN {[elem_id |-> param_item.elem_id, mode |-> "show_if",
                   target_elem |-> r.target, target_value |-> r.value] : r \in param_item.show_if}
            ELSE {[elem_id |-> param_item.elem_id, mode |-> "hide_if",
                   target_elem |-> r.target, target_value |-> r.value] : r \in param_item.hide_if}
    IN  UNION {of(items[i]) : i \in {j \in 1..Len(items) : items[j].show}}

\* callback_show_param_if / callback_hide_param_if
callback_show_param_if(obs_value, target_value) == obs_value \in target_value
callback_hide_param_if(obs_value, target_value) == obs_value \notin target_value

(***************************************************************************)
(* State                                                                    *)
(***************************************************************************)
VARIABLES
    app,               \* the name of the app that was constructed
    loaded,            \* whether the initial calls of the callbacks have run
    value,             \* value of every control {"input_elem": elem_id}
    n_clicks,          \* n_clicks of every open button, by menu number
    menu_is_open,      \* is_open of every menu collapse, by menu number
    collapse_is_open,  \* is_open of every "{elem_id}-collapse"
    current_settings,  \* children of the hidden div "current-settings"
    figure,            \* figure of every dcc.Graph
    toast_is_open,     \* is_open of every "{elem_id}-toast"
    toast_children,    \* children of every "{elem_id}-toast"
    ev,                \* the last event
    fc,                \* what figure_callback did for each figure in the last event
    parse_cache,       \* the cached dicts of parse_params that were modified
    download,          \* the data the last event handed to dcc.Download "download-settings"
    split              \* a call of split_param_columns on its own

vars == << app, loaded, value, n_clicks, menu_is_open, collapse_is_open,
           current_settings, figure, toast_is_open, toast_children, ev, fc,
           parse_cache, download, split >>

\* The arguments of MenuDrivenFigure(...), and what the constructor makes of
\* them: the controls of the layout and the callbacks of decorate_callbacks.
\* They are fixed for an app, and tabulated by app.
LayoutElems == [n \in AppNames |-> InputElems(Config(n))]
LayoutCallbacks == [n \in AppNames |-> VisibilityCallbacks(Config(n))]
LayoutCards == [n \in AppNames |->
                   [e \in LiveElemIds(Config(n)) |-> CardOf(Config(n), e)]]
cfg == Config(app)
Elems == LayoutElems[app]
ElemIds == {Elems[i] : i \in 1..Len(Elems)}

\* ctx.inputs_list[0] of update_url: the id and the value of every control.
InputsList(val) == [i \in 1..Len(Elems) |-> [id |-> Elems[i], value |-> val[Elems[i]]]]

\* An event: its kind, the number of the menu of the button that was clicked
\* (0: the header menu, or no button) and the elem_id of the control that
\* was changed.
Event(kind, menu_ix, elem) == [kind |-> kind, menu_ix |-> menu_ix, elem |-> elem]

\* figure_callback was not called (no event yet, or a figure without function).
\* was_open: is_open of the figure's toast before the event.
NotCalled ==
    [kind |-> "none", fn |-> "", selections |-> << >>, raised |-> FALSE,
     selected_params |-> NoneDoc, was_open |-> FALSE]

\* split_param_columns before it is called (the variable `split` holds a
\* call of it on its own: its arguments and what it returned).
\* card, rendered: the dbc.Col's parameter_menus makes of the columns.
NoSplit == [param_menu_list |-> << >>, ncols |-> 1, columns |-> << >>,
            returned |-> FALSE, card |-> << >>, rendered |-> FALSE]

\* The state of the app `name` after MenuDrivenFigure(...).
Constructed(name) ==
    /\ app = name
    /\ loaded = FALSE
    /\ value = [e \in ElemIds |-> default_value(cfg, ItemOf(cfg, e))]
    /\ n_clicks = [menu_ix \in MenuIxs(cfg) |-> NoClicks]
    /\ menu_is_open = [menu_ix \in MenuIxs(cfg) |-> FALSE]
    /\ collapse_is_open = [e \in ElemIds |-> TRUE]
    /\ current_settings = NoneDoc
    /\ figure = [s \in Figures(cfg) |-> NoFigure]
    /\ toast_is_open = [s \in Figures(cfg) |-> FALSE]
    /\ toast_children = [s \in Figures(cfg) |-> NoneMsg]
    /\ ev = Event("init", 0, "")
    /\ fc = [s \in Figures(cfg) |-> NotCalled]
    /\ parse_cache = << >>
    /\ download = NoDownload

Init ==
    /\ \E name \in AppNames : Constructed(name)
    /\ split = NoSplit

(***************************************************************************)
(* The callbacks an event triggers                                          *)
(***************************************************************************)
\* The callbacks of an event are handled one at a time, in the order of
\* self.function: the cache of parse_params as the callback of the i-th
\* key finds it.
RECURSIVE CacheBefore(_, _, _, _)
CacheBefore(i, open_clicks, trigger, selected_params) ==
    IF i = 1 THEN parse_cache
    ELSE figure_callback(cfg, cfg.function[i - 1].elem_id, open_clicks, trigger,
                         selected_params,
                         CacheBefore(i - 1, open_clicks, trigger, selected_params)).cache

\* FigureCallbacks that leaves a figure whose toast is open as it is.
FigureCallbacks_sticky(open_clicks, trigger, selected_params) ==
    LET ix(s) == CHOOSE i \in 1..Len(cfg.function) : cfg.function[i].elem_id = s
        r(s) == figure_callback(cfg, s, open_clicks, trigger, selected_params,
                                CacheBefore(ix(s), open_clicks, trigger, selected_params))
        updated(s) == /\ s \in FunctionKeys(cfg)
                      /\ r(s).kind = "return"
                      /\ ~toast_is_open[s]
    IN  /\ figure' = [s \in Figures(cfg) |-> IF updated(s) THEN r(s).fig ELSE figure[s]]
        /\ toast_is_open' =
               [s \in Figures(cfg) |-> IF updated(s) THEN r(s).is_open ELSE toast_is_open[s]]
        /\ toast_children' =
               [s \in Figures(cfg) |-> IF updated(s) THEN r(s).children ELSE toast_children[s]]
        /\ fc' = [s \in Figures(cfg) |->
                     IF s \in FunctionKeys(cfg)
                     THEN [kind |-> r(s).kind, fn |-> r(s).fn,
                           selections |-> r(s).selections, raised |-> r(s).raised,
                           selected_params |-> selected_params,
                           was_open |-> toast_is_open[s]]
                     ELSE NotCalled]
        /\ parse_cache' = CacheBefore(Len(cfg.function) + 1, open_clicks, trigger,
                                      selected_params)

\* The figure_callback of every key of self.function, with the inputs of
\* the event.
FigureCallbacks(open_clicks, trigger, selected_params) ==
    LET ix(s) == CHOOSE i \in 1..Len(cfg.function) : cfg.function[i].elem_id = s
        r(s) == figure_callback(cfg, s, open_clicks, trigger, selected_params,
                                CacheBefore(ix(s), open_clicks, trigger, selected_params))
        updated(s) == s \in FunctionKeys(cfg) /\ r(s).kind = "return"
    IN  /\ figure' = [s \in Figures(cfg) |-> IF updated(s) THEN r(s).fig ELSE figure[s]]
        /\ toast_is_open' =
               [s \in Figures(cfg) |-> IF updated(s) THEN r(s).is_open ELSE toast_is_open[s]]
        /\ toast_children' =
               [s \in Figures(cfg) |-> IF updated(s) THEN r(s).children ELSE toast_children[s]]
        /\ fc' = [s \in Figures(cfg) |->
                     IF s \in FunctionKeys(cfg)
                     THEN [kind |-> r(s).kind, fn |-> r(s).fn,
                           selections |-> r(s).selections, raised |-> r(s).raised,
                           selected_params |-> selected_params,
                           was_open |-> toast_is_open[s]]
                     ELSE NotCalled]
        /\ parse_cache' = CacheBefore(Len(cfg.function) + 1, open_clicks, trigger,
                                      selected_params)

\* The show_if / hide_if callbacks whose target is among `targets`, with the
\* values val of the controls.
VisibilityUpdate(targets, val) ==
    LET fired(e) == {cb \in LayoutCallbacks[app] :
                        /\ cb.elem_id = e
                        /\ cb.target_elem \in targets
                        /\ cb.target_elem \in DOMAIN val}
        is_open(cb) == IF cb.mode = "show_if"
                       THEN callback_show_param_if(val[cb.target_elem], cb.target_value)
                       ELSE callback_hide_param_if(val[cb.target_elem], cb.target_value)
    IN  collapse_is_open' =
            [e \in DOMAIN collapse_is_open |->
                IF fired(e) # {}
                THEN is_open(CHOOSE cb \in fired(e) : TRUE)
                ELSE collapse_is_open[e]]

(***************************************************************************)
(* Events                                                                   *)
(***************************************************************************)
\* The app serves events when it was constructed: an app whose construction
\* fails an assertion never runs.
Serving == ConstructionError(cfg) = ""

\* The page is loaded: the initial call of every callback.  Until its results
\* arrive, the page shows the layout as it was constructed ("current-settings"
\* holds None), and what is displayed of it can already be clicked or edited.
PageLoad ==
    /\ Serving
    /\ ~loaded
    /\ loaded' = TRUE
    /\ menu_is_open' = open_close_parameter_menus(cfg, NoTrigger)
    /\ current_settings' = update_url(InputsList(value))
    /\ VisibilityUpdate(ElemIds, value)
    /\ FigureCallbacks(n_clicks, SettingsTrigger, current_settings')
    /\ ev' = Event("load", 0, "")
    /\ download' = NoDownload
    /\ UNCHANGED << split, app, value, n_clicks >>

\* A click on the open button of a menu (navbar).
OpenClick(menu_ix) ==
    LET trigger == ButtonTrigger(MenuIdOf(cfg, menu_ix), "open-button")
    IN  /\ Serving
        /\ n_clicks[menu_ix].n < MaxClicks
        /\ n_clicks' = [n_clicks EXCEPT ![menu_ix] = Clicked(n_clicks[menu_ix].n + 1)]
        /\ menu_is_open' = open_close_parameter_menus(cfg, trigger)
        /\ FigureCallbacks(n_clicks', trigger, current_settings)
        /\ ev' = Event("open", menu_ix, "")
        /\ download' = NoDownload
        /\ UNCHANGED << split, app, loaded, value, collapse_is_open, current_settings >>

\* Whether the card of a menu is displayed: the card of a parameter menu is
\* inside the collapse of the menu, the card of the header menu (number 0)
\* is displayed when header_menu is given.
CardDisplayed(menu_ix) ==
    IF menu_ix = 0 THEN ~cfg.header_is_none ELSE menu_is_open[menu_ix]

\* A click on "Close Menu & Redraw" of a menu (param_menu_footer), in the
\* card of the menu.
CloseClick(menu_ix) ==
    LET trigger == ButtonTrigger(MenuIdOf(cfg, menu_ix), "close-button")
    IN  /\ Serving
        /\ CardDisplayed(menu_ix)
        /\ menu_is_open' = open_close_parameter_menus(cfg, trigger)
        /\ FigureCallbacks(n_clicks, trigger, current_settings)
        /\ ev' = Event("close", menu_ix, "")
        /\ download' = NoDownload
        /\ UNCHANGED << split, app, loaded, value, n_clicks, collapse_is_open, current_settings >>

\* The menus that have a "Redraw" button: every parameter menu
\* (param_menu_footer) and the header menu (header_menu_footer).
\* Menu number 0 stands for the header menu.
RedrawMenus == MenuIxs(cfg) \cup {0}

\* RedrawClick with the redraw buttons among the Inputs of
\* open_close_parameter_menus.
RedrawClick_closes(menu_ix) ==
    LET menu == IF menu_ix = 0 THEN "header" ELSE MenuIdOf(cfg, menu_ix)
        trigger == ButtonTrigger(menu, "redraw-button")
    IN  /\ Serving
        /\ CardDisplayed(menu_ix)
        /\ menu_is_open' = open_close_parameter_menus(cfg, trigger)
        /\ FigureCallbacks(n_clicks, trigger, current_settings)
        /\ ev' = Event("redraw", menu_ix, "")
        /\ download' = NoDownload
        /\ UNCHANGED << split, app, loaded, value, n_clicks, collapse_is_open,
                        current_settings >>

\* A click on "Redraw", in the card of a menu.
RedrawClick(menu_ix) ==
    LET menu == IF menu_ix = 0 THEN "header" ELSE MenuIdOf(cfg, menu_ix)
        trigger == ButtonTrigger(menu, "redraw-button")
    IN  /\ Serving
        /\ CardDisplayed(menu_ix)
        /\ FigureCallbacks(n_clicks, trigger, current_settings)
        /\ ev' = Event("redraw", menu_ix, "")
        /\ download' = NoDownload
        /\ UNCHANGED << split, app, loaded, value, n_clicks, menu_is_open, collapse_is_open,
                        current_settings >>

\* The user changes the value of a control, which is displayed in the card
\* of its menu, inside its own collapse.
ControlChange(e, v) ==
    /\ Serving
    /\ CardDisplayed(LayoutCards[app][e])
    /\ collapse_is_open[e]
    /\ value[e] # v
    /\ value' = [value EXCEPT ![e] = v]
    /\ current_settings' = update_url(InputsList(value'))
    /\ VisibilityUpdate({e}, value')
    /\ FigureCallbacks(n_clicks, SettingsTrigger, current_settings')
    /\ ev' = Event("control", 0, e)
    /\ download' = NoDownload
    /\ UNCHANGED << split, app, loaded, n_clicks, menu_is_open >>

\* A click on "Download Settings" of a menu (param_menu_footer), in the
\* card of the menu: download_settings is the only callback with that
\* button as Input, and it reads "current-settings" as State.
DownloadClick(menu_ix) ==
    /\ Serving
    /\ CardDisplayed(menu_ix)
    /\ download' = download_settings(n_clicks, current_settings)
    /\ fc' = [s \in Figures(cfg) |-> NotCalled]
    /\ ev' = Event("download", menu_ix, "")
    /\ UNCHANGED << split, app, loaded, value, n_clicks, menu_is_open, collapse_is_open,
                    current_settings, figure, toast_is_open, toast_children,
                    parse_cache >>

Next ==
    \/ PageLoad
    \/ \E menu_ix \in MenuIxs(cfg) : OpenClick(menu_ix)
    \/ \E menu_ix \in MenuIxs(cfg) : CloseClick(menu_ix)
    \/ \E menu_ix \in RedrawMenus : RedrawClick(menu_ix)
    \/ \E e \in ElemIds, v \in Values : ControlChange(e, v)
    \/ \E menu_ix \in MenuIxs(cfg) : DownloadClick(menu_ix)

Spec == Init /\ [][Next]_vars

(***************************************************************************)
(* split_param_columns on its own                                           *)
(***************************************************************************)
\* The lists split_param_columns is called on: up to MaxLen param_items,
\* each kept with the previous one or not, and shown or not.
SplitInit ==
    /\ Constructed("iris")
    /\ \E n \in 0..MaxLen, ncols \in 1..MaxCols :
         \E kp \in [1..n -> BOOLEAN], sh \in [1..n -> BOOLEAN] :
             split = [param_menu_list |->
                          [i \in 1..n |-> Item("p" \o ToString(i), sh[i], kp[i],
                                               NoRule, NoRule, {})],
                      ncols |-> ncols,
                      columns |-> << >>,
                      returned |-> FALSE,
                      card |-> << >>,
                      rendered |-> FALSE]

\* The call returns its columns.
SplitCall ==
    /\ ~split.returned
    /\ split' = [split EXCEPT
                     !.columns = split_param_columns(split.param_menu_list, split.ncols),
                     !.returned = TRUE]
    /\ UNCHANGED << app, loaded, value, n_clicks, menu_is_open, collapse_is_open,
                    current_settings, figure, toast_is_open, toast_children, ev, fc,
                    parse_cache, download >>

\* parameter_menus / header_menu make one dbc.Col of every column that was
\* returned, with the items of the column that are shown.
RenderCard ==
    /\ split.returned
    /\ ~split.rendered
    /\ split' = [split EXCEPT
                     !.card = [c \in 1..Len(split.columns) |-> ShownItems(split.columns[c])],
                     !.rendered = TRUE]
    /\ UNCHANGED << app, loaded, value, n_clicks, menu_is_open, collapse_is_open,
                    current_settings, figure, toast_is_open, toast_children, ev, fc,
                    parse_cache, download >>

SplitNext ==
    \/ SplitCall
    \/ RenderCard

SplitSpec == SplitInit /\ [][SplitNext]_vars

(***************************************************************************)
(* Properties                                                               *)
(***************************************************************************)
\* Whether an open button was ever clicked.
EverOpened(clicks) == \E m \in DOMAIN clicks : ~clicks[m].is_none

\* Whether figure_callback of figure s went past PreventUpdate in the last
\* event.
Drew(s) == fc[s].kind \in {"return", "exception"}

\* The snapshot: the value of every control of the layout.
Snapshot == [e \in ElemIds |-> value[e]]

\* C1: once an open button was clicked (the click itself included, and also
\* when every menu is closed again), an open click or a change of a control
\* value renders nothing: no drawing function is called and the figure and
\* the toast of every figure stay as they were; a render then comes only
\* from a click on Redraw or on Close Menu & Redraw.
C1_NoRenderOnceOpened ==
    [][ EverOpened(n_clicks') =>
          /\ ev'.kind \in {"open", "control"} =>
                /\ figure' = figure
                /\ toast_is_open' = toast_is_open
                /\ toast_children' = toast_children
                /\ \A s \in Figures(cfg) : ~Drew(s)'
          /\ (\E s \in Figures(cfg) : Drew(s)') => ev'.kind \in {"redraw", "close"}
      ]_vars

\* C1 witness: a control was changed after a menu was opened and closed
\* again, and the figure still shows the selections of an earlier render.
C1_Witness ==
    /\ EverOpened(n_clicks)
    /\ \A m \in MenuIxs(cfg) : ~menu_is_open[m]
    /\ ev.kind = "control"
    /\ \E s \in FunctionKeys(cfg) :
          /\ figure[s].tag = "figure"
          /\ figure[s].selections # Snapshot
          /\ fc[s].kind = "PreventUpdate"

\* C2: while no open button was ever clicked, every change of a control
\* value (of the header menu too) makes every figure that has a function
\* draw with the new snapshot.
C2_RenderOnChangeBeforeOpen ==
    (ev.kind = "control" /\ ~EverOpened(n_clicks)) =>
        \A s \in FunctionKeys(cfg) :
            /\ fc[s].kind = "return"
            /\ fc[s].selected_params = current_settings
            /\ fc[s].selections = Snapshot

\* C2 witness: a control of the header menu was changed before any open
\* click and the figures drew with its new value.
C2_Witness ==
    /\ app = "twofig"
    /\ ev = Event("control", 0, "d")
    /\ ~EverOpened(n_clicks)
    /\ value["d"] = Val(0)
    /\ \A s \in FunctionKeys(cfg) :
          fc[s].kind = "return" /\ fc[s].selections["d"] = Val(0)

\* What the function registered for figure s shows for the selections: its
\* figure, or the placeholder when it raises.
OwnFigure(s, selections) ==
    IF Call(FunctionOf(cfg, s), selections).raised
    THEN empty_plot
    ELSE Call(FunctionOf(cfg, s), selections).fig

\* C3: after every render, every figure s shows the result of its own
\* function, function[s](data, snapshot), never that of another figure.
C3_OwnFunction ==
    \A s \in FunctionKeys(cfg) :
        fc[s].kind = "return" => figure[s] = OwnFigure(s, fc[s].selections)

\* C4: on a render where the function of figure a raises and the function
\* of figure b returns, a shows the placeholder with its toast open and b
\* shows its own figure with its toast closed.
C4_ErrorIsolation ==
    \A a, b \in FunctionKeys(cfg) :
        ( /\ a # b
          /\ fc[a].kind = "return" /\ fc[b].kind = "return"
          /\ Call(FunctionOf(cfg, a), fc[a].selections).raised
          /\ ~Call(FunctionOf(cfg, b), fc[b].selections).raised )
        => /\ figure[a] = empty_plot /\ toast_is_open[a]
           /\ figure[b] = Call(FunctionOf(cfg, b), fc[b].selections).fig
           /\ ~toast_is_open[b]

\* The call figure_callback makes for figure s in the last event, with the
\* selections it hands to the drawing function.
LastCall(s) == Call(drawing_function(cfg, s), fc[s].selections)

\* Whether figure_callback of figure s reached its try block in the last
\* event: it did not raise PreventUpdate and the settings were parsed.
Rendered(s) ==
    /\ fc[s].kind \notin {"none", "PreventUpdate"}
    /\ ~json_loads(fc[s].selected_params).raised

\* C5: when a render's drawing function raises, the figure becomes the
\* placeholder, the toast is opened with "Unable to render -- " followed by
\* the error, and no exception leaves the callback.
C5_RaiseShowsPlaceholder ==
    \A s \in FunctionKeys(cfg) :
        (Rendered(s) /\ LastCall(s).raised) =>
            /\ fc[s].kind = "return"
            /\ figure[s] = empty_plot
            /\ toast_is_open[s]
            /\ toast_children[s] =
                   [tag |-> "str", prefix |-> "Unable to render -- ",
                    detail |-> LastCall(s).e]

\* C5 witness: a drawing function divided by zero and the placeholder is
\* shown.
C5_Witness ==
    \E s \in FunctionKeys(cfg) :
        /\ Rendered(s)
        /\ LastCall(s).raised
        /\ LastCall(s).e = "division by zero"
        /\ figure[s] = empty_plot
        /\ toast_is_open[s]

\* C6: when a render's drawing function returns a figure, that figure is
\* shown and the toast is closed with no message, also when the toast was
\* open from an earlier failure.
C6_ReturnShowsFigure ==
    \A s \in FunctionKeys(cfg) :
        (Rendered(s) /\ ~LastCall(s).raised) =>
            /\ fc[s].kind = "return"
            /\ figure[s] = LastCall(s).fig
            /\ figure[s].tag = "figure"
            /\ ~toast_is_open[s]
            /\ toast_children[s] = NoneMsg

\* C6 witness: a render succeeded while the toast was open from a failure.
C6_Witness ==
    \E s \in FunctionKeys(cfg) :
        /\ Rendered(s)
        /\ ~LastCall(s).raised
        /\ fc[s].was_open
        /\ ~toast_is_open[s]
        /\ figure[s].tag = "figure"

\* C7: settings that cannot be parsed (the None of a fresh session
\* included) are handled like a render error: placeholder, open toast, and
\* no exception leaves the callback.
C7_UnparsableIsRenderError ==
    \A s \in FunctionKeys(cfg) :
        ( /\ fc[s].kind \notin {"none", "PreventUpdate"}
          /\ json_loads(fc[s].selected_params).raised )
        => /\ fc[s].kind = "return"
           /\ figure[s] = empty_plot
           /\ toast_is_open[s]

\* The menus that are open.
OpenMenus == {m \in MenuIxs(cfg) : menu_is_open[m]}

\* C8: at most one menu is open, and after a click on the open button of a
\* menu that menu is open and every other menu is closed, also when menus
\* share a label.
C8_SingleOpenMenu ==
    /\ Cardinality(OpenMenus) <= 1
    /\ ev.kind = "open" => OpenMenus = {ev.menu_ix}

\* C8 witness: of two menus with the same label, the first was opened and
\* then the second, and only the second is open.
C8_Witness ==
    /\ Len(cfg.menus) = 2
    /\ cfg.menus[1].label = cfg.menus[2].label
    /\ ~n_clicks[1].is_none
    /\ ev = Event("open", 2, "")
    /\ menu_is_open[2] /\ ~menu_is_open[1]

\* The param_items of the schema: of every menu and of the header menu.
SchemaItems(c) ==
    LET items == ItemsOfMenus(c, 1)
                 \o (IF c.header_is_none THEN << >> ELSE c.header_menu_items)
    IN  {items[i] : i \in 1..Len(items)}

\* The keys of the serialized settings.
SettingsKeys == {current_settings.text[i].key : i \in 1..Len(current_settings.text)}

\* C9: the keys of the published settings are exactly the elem_ids of the
\* items with show=true; items with show=false are no keys, and items whose
\* collapse is closed by a visibility rule stay keys.
C9_SnapshotKeys ==
    current_settings.tag = "str" =>
        /\ SettingsKeys = {i.elem_id : i \in {j \in SchemaItems(cfg) : j.show}}
        /\ DOMAIN json_loads(current_settings).value = SettingsKeys
        /\ Len(current_settings.text) = Cardinality(SettingsKeys)

\* C9 witness: after a change of a control, an item hidden by its rule is a
\* key and an item with show=false is not.
C9_Witness ==
    /\ app = "rules"
    /\ ev.kind = "control"
    /\ ~collapse_is_open["p"]
    /\ "p" \in SettingsKeys
    /\ "s" \notin SettingsKeys

\* The visibility a rule asks for, given the value of its target.
RuleVisible(param_item, val) ==
    IF param_item.show_if # {}
    THEN \A r \in param_item.show_if : val[r.target] \in r.value
    ELSE \A r \in param_item.hide_if : val[r.target] \notin r.value

RuleTargets(param_item) ==
    {r.target : r \in param_item.show_if \cup param_item.hide_if}

\* C10: after every change of the value of the target of a show_if
\* (hide_if) rule, the collapse of the parameter that has the rule is open
\* iff the value is (is not) among the rule's values.
C10_VisibilityRule ==
    \A param_item \in {j \in SchemaItems(cfg) : j.show} :
        (ev.kind = "control" /\ ev.elem \in RuleTargets(param_item)) =>
            collapse_is_open[param_item.elem_id] = RuleVisible(param_item, value)

\* The default every shown item of the schema resolves to: the initial
\* setting of its elem_id, else its own value, else the empty list.
ResolvedDefaults ==
    LET shown == {j \in SchemaItems(cfg) : j.show}
        item(e) == CHOOSE j \in shown : j.elem_id = e
    IN  [e \in {j.elem_id : j \in shown} |->
            IF e \in DOMAIN cfg.initial_settings THEN cfg.initial_settings[e]
            ELSE IF item(e).value = {} THEN EmptyList
            ELSE CHOOSE v \in item(e).value : TRUE]

C12_RedrawUsesLatest ==
    \A s \in FunctionKeys(cfg) :
        (ev.kind = "redraw" /\ EverOpened(n_clicks) /\ current_settings.tag = "str") =>
            figure[s] = OwnFigure(s, Snapshot)

\* C13: a failed render (placeholder, toast open) is left as it is by an
\* event that does not draw the figure: it is not tried again; and the
\* next event in which the drawing function returns a figure shows that
\* figure and closes the toast, with no message.
C13_NoStickyFailure ==
    [][ \A s \in FunctionKeys(cfg) :
          (figure[s] = empty_plot /\ toast_is_open[s]) =>
              /\ ~Drew(s)' =>
                    /\ figure'[s] = figure[s]
                    /\ toast_is_open'[s]
                    /\ toast_children'[s] = toast_children[s]
              /\ (Rendered(s)' /\ ~LastCall(s)'.raised) =>
                    /\ figure'[s] = LastCall(s)'.fig
                    /\ figure'[s].tag = "figure"
                    /\ ~toast_is_open'[s]
                    /\ toast_children'[s] = NoneMsg
      ]_vars

\* C13 witness: a click on Redraw or Close Menu & Redraw found the toast
\* open from a failed render, and the figure is drawn and the toast closed.
C13_Witness ==
    \E s \in FunctionKeys(cfg) :
        /\ ev.kind \in {"redraw", "close"}
        /\ fc[s].was_open
        /\ Rendered(s)
        /\ ~LastCall(s).raised
        /\ figure[s].tag = "figure"
        /\ ~toast_is_open[s]
        /\ toast_children[s] = NoneMsg

\* C14: for every list and every ncols >= 1, the columns split_param_columns
\* returns, put one after the other, are the list: no item is lost, none
\* is there twice, and the order is kept.
C14_ConcatIsInput ==
    split.returned => Concat(split.columns) = split.param_menu_list

\* C14 witness: a list of three or more items was split into three columns.
C14_Witness ==
    /\ split.returned
    /\ Len(split.param_menu_list) >= 3
    /\ Len(split.columns) = 3
    /\ Concat(split.columns) = split.param_menu_list

\* C15: no column after the first starts with an item that has
\* keep_with_previous (the first column starts with the first item of the
\* list, whatever its flag).
C15_KeepWithPrevious ==
    split.returned =>
        \A c \in 2..Len(split.columns) :
            /\ Len(split.columns[c]) > 0
            /\ ~split.columns[c][1].keep_with_previous

\* C15 witness: a list was split in two, and its first column is longer
\* than half of the list and ends with an item that has keep_with_previous:
\* the split was moved past that item.
C15_Witness ==
    /\ split.returned
    /\ split.ncols = 2
    /\ Len(split.columns) = 2
    /\ Len(split.columns[1]) * 2 > Len(split.param_menu_list) + 1
    /\ split.columns[1][Len(split.columns[1])].keep_with_previous

\* C16: the construction of an app fails when an item of its schema, of a
\* parameter menu or of the header menu and whatever its show flag, has
\* both show_if and hide_if.
C16_BothRulesRejected ==
    \A param_item \in SchemaItems(cfg) :
        (param_item.show_if # {} /\ param_item.hide_if # {}) =>
            ConstructionError(cfg) # ""

\* C17: the construction of an app fails when the target of a show_if or
\* hide_if is not the elem_id of another item of the schema, and no
\* show_if / hide_if callback is registered on a control that is not in
\* the layout.
C17_DanglingTargetRejected ==
    /\ \A param_item \in SchemaItems(cfg) :
          \A r \in param_item.show_if \cup param_item.hide_if :
              r.target \notin {j.elem_id : j \in SchemaItems(cfg) \ {param_item}} =>
                  ConstructionError(cfg) # ""
    /\ ConstructionError(cfg) = "" =>
          \A cb \in LayoutCallbacks[app] : cb.target_elem \in ElemIds

\* C18: the construction of an app fails when two items of its schema, of
\* any menus, have the same elem_id.
C18_DuplicateElemIdRejected ==
    LET items == ItemsOfMenus(cfg, 1)
                 \o (IF cfg.header_is_none THEN << >> ELSE cfg.header_menu_items)
    IN  (\E i, j \in 1..Len(items) : i # j /\ items[i].elem_id = items[j].elem_id) =>
            ConstructionError(cfg) # ""

\* C19: the cache of parse_params cannot be observed: the dict a drawing
\* function is handed is the parse of the settings string of the event,
\* whether or not that string was parsed before, for whichever figure, and
\* whatever earlier calls of a drawing function did with their dict.
C19_CacheTransparent ==
    \A s \in FunctionKeys(cfg) :
        Rendered(s) => fc[s].selections = json_loads(fc[s].selected_params).value

\* C20: no menu is open before the first event, and none is open after a
\* click on Close Menu & Redraw of any menu.
C20_ClosedInitiallyAndAfterClose ==
    ev.kind \in {"init", "close"} => OpenMenus = {}

\* C20 witness: of two menus that were both opened, the second was closed
\* with its close button and no menu is open.
C20_Witness ==
    /\ Len(cfg.menus) = 2
    /\ \A m \in MenuIxs(cfg) : ~n_clicks[m].is_none
    /\ ev = Event("close", 2, "")
    /\ OpenMenus = {}

\* C21: a click on Download Settings hands dcc.Download the settings that
\* "current-settings" holds at the click, under the file name
\* "gig-map.settings.json", and changes neither the settings nor the open
\* menu nor the figure, the toast or the message of any figure; no other
\* event, the page load included, hands over anything.
C21_DownloadSettings ==
    [][ /\ ev'.kind = "download" =>
              /\ download'.tag = "dict"
              /\ download'.content = current_settings
              /\ download'.filename = "gig-map.settings.json"
              /\ current_settings' = current_settings
              /\ value' = value
              /\ menu_is_open' = menu_is_open
              /\ figure' = figure
              /\ toast_is_open' = toast_is_open
              /\ toast_children' = toast_children
        /\ ev'.kind # "download" => download' = NoDownload
      ]_vars

\* C21 witness: the settings were downloaded after a control was changed
\* in the open menu: the document holds the new value, and the figure still
\* shows an earlier one.
C21_Witness ==
    /\ ev.kind = "download"
    /\ download.tag = "dict"
    /\ download.content = current_settings
    /\ current_settings.tag = "str"
    /\ json_loads(download.content).value = Snapshot
    /\ \E s \in FunctionKeys(cfg) :
          figure[s].tag = "figure" /\ figure[s].selections # Snapshot

\* C22: the columns displayed for a menu are the split of its shown items
\* alone (items with show=false change neither where the list is split nor
\* how many columns are displayed), and no displayed column that follows a
\* displayed item starts with an item that has keep_with_previous.
C22_SplitOfShownItems ==
    split.rendered =>
        /\ split.card = split_param_columns(ShownItems(split.param_menu_list), split.ncols)
        /\ \A c \in 2..Len(split.card) :
              (split.card[c] # << >> /\ \E b \in 1..(c - 1) : split.card[b] # << >>) =>
                  ~split.card[c][1].keep_with_previous

\* The partition of a list into columns: with more than one element and
\* ncols > 1, the prefix list[0..i) for the smallest i >= 1 with
\* i >= len(list) / ncols and list[i] not kept with the previous item,
\* followed by the partition of list[i..] with ncols - 1; when there is no
\* such i, or a single element, or ncols = 1, the list as one column.
\* of_empty: the columns of the empty list.
RECURSIVE Partition(_, _, _)
Partition(list, ncols, of_empty) ==
    LET I == {i \in 1..(Len(list) - 1) :
                 i * ncols >= Len(list) /\ ~list[i + 1].keep_with_previous}
    IN  IF Len(list) = 0 THEN of_empty
        ELSE IF Len(list) > 1 /\ ncols > 1 /\ I # {}
        THEN << SubSeq(list, 1, Min(I)) >>
             \o Partition(SubSeq(list, Min(I) + 1, Len(list)), ncols - 1, of_empty)
        ELSE << list >>

\* C23 as stated: split_param_columns returns that partition, where a list
\* of at most one element, the empty list included, is returned as the
\* single column.
C23_PartitionAsStated ==
    split.returned =>
        split.columns = Partition(split.param_menu_list, split.ncols, << << >> >>)

\* C23: split_param_columns returns that partition, where the empty list
\* has no column at all.
C23_Partition ==
    split.returned =>
        split.columns = Partition(split.param_menu_list, split.ncols, << >>)

\* C23 witness: a list was split into three columns, and the first split is
\* behind an item with keep_with_previous that sits where the list would
\* have been split.
C23_Witness ==
    /\ split.returned
    /\ split.ncols = 3
    /\ Len(split.columns) = 3
    /\ Len(split.columns[1]) >= 2
    /\ split.columns[1][Len(split.columns[1])].keep_with_previous
    /\ split.columns = Partition(split.param_menu_list, split.ncols, << >>)

\* C24: after every change of a control value the published settings map
\* every control of the layout to its current value: the changed control to
\* its new value, every other control to its unchanged value; and the
\* settings string a callback is handed (figure_callback as Input,
\* download_settings as State) is always that complete, current mapping.
C24_SnapshotComplete ==
    [][ /\ ev'.kind = "control" =>
              LET snap == json_loads(current_settings').value
              IN  /\ current_settings'.tag = "str"
                  /\ DOMAIN snap = {j.elem_id : j \in {i \in SchemaItems(cfg) : i.show}}
                  /\ value'[ev'.elem] # value[ev'.elem]
                  /\ snap[ev'.elem] = value'[ev'.elem]
                  /\ \A e \in DOMAIN snap \ {ev'.elem} :
                        snap[e] = value[e] /\ value'[e] = value[e]
        /\ \A s \in FunctionKeys(cfg) :
              (Drew(s)' /\ fc'[s].selected_params.tag = "str") =>
                  /\ fc'[s].selected_params = current_settings'
                  /\ json_loads(fc'[s].selected_params).value = Snapshot'
        /\ (download'.tag = "dict" /\ download'.content.tag = "str") =>
              json_loads(download'.content).value = Snapshot'
      ]_vars

\* C24 witness: the target of a hide_if was changed, the item of the rule
\* is hidden, and the settings hold the new value of the target and the
\* unchanged values of the others, the hidden one included.
C24_Witness ==
    /\ app = "rules"
    /\ ev = Event("control", 0, "t")
    /\ ~collapse_is_open["q"]
    /\ json_loads(current_settings).value = Snapshot
    /\ Snapshot["t"] = Val(1)
    /\ Snapshot["q"] = Val(0)
    /\ Snapshot["p"] = EmptyList

\* C25: a click on Redraw, of a parameter menu or of the header menu, makes
\* every figure that has a function draw and leaves every menu open or
\* closed as it was; a click on Close Menu & Redraw makes them draw too and
\* closes every menu.
C25_RedrawKeepsMenus ==
    [][ /\ ev'.kind = "redraw" => menu_is_open' = menu_is_open
        /\ ev'.kind = "close" => \A m \in MenuIxs(cfg) : ~menu_is_open'[m]
        /\ ev'.kind \in {"redraw", "close"} =>
              \A s \in FunctionKeys(cfg) :
                  /\ Drew(s)'
                  /\ current_settings.tag = "str" => fc'[s].kind = "return"
      ]_vars

\* C25 witness: Redraw of the header menu was clicked while the second
\* menu was open; the figures were drawn and the menu is still open.
C25_Witness ==
    /\ ev = Event("redraw", 0, "")
    /\ OpenMenus = {2}
    /\ \A s \in FunctionKeys(cfg) : fc[s].kind = "return"

\* C26: for a list that is not empty and any ncols >= 1,
\* split_param_columns returns at least one and at most ncols columns, none
\* of them empty; for the empty list it returns no column.
C26_ColumnCount ==
    split.returned =>
        /\ Len(split.param_menu_list) > 0 =>
              /\ Len(split.columns) >= 1
              /\ Len(split.columns) <= split.ncols
              /\ \A c \in 1..Len(split.columns) : Len(split.columns[c]) >= 1
        /\ Len(split.param_menu_list) = 0 => Len(split.columns) = 0

\* C26 witness: a list with more items than ncols was split into exactly
\* ncols columns, for ncols > 1.
C26_Witness ==
    /\ split.returned
    /\ split.ncols > 1
    /\ Len(split.param_menu_list) > split.ncols
    /\ Len(split.columns) = split.ncols

====
